---- MODULE Spec2Model ----
(***************************************************************************)
(* Verification model of the government-website backend: the listing       *)
(* routes (slug assignment, create/update/delete, GET /jobs), the auth     *)
(* routes (register, login, admin setup), the requireAdmin gate and the    *)
(* cached database connection.                                             *)
(*                                                                         *)
(* Strings are sequences of one-character strings, so that slugify and     *)
(* the template literals of the source are computed, not assumed.          *)
(***************************************************************************)
EXTENDS Integers, Sequences, FiniteSets, TLC

----------------------------------------------------------------------------
(* Characters and strings *)

Uppers == <<"A","B","C","D","E","F","G","H","I","J","K","L","M",
            "N","O","P","Q","R","S","T","U","V","W","X","Y","Z">>
Lowers == <<"a","b","c","d","e","f","g","h","i","j","k","l","m",
            "n","o","p","q","r","s","t","u","v","w","x","y","z">>
DigitChars == <<"0","1","2","3","4","5","6","7","8","9">>

Range(s) == { s[k] : k \in DOMAIN s }

\* \s of a JavaScript regular expression, as far as the inputs here go
Whitespace == { " ", "\t" }

\* String.prototype.toLowerCase on one character
LowerChar(c) ==
  IF \E k \in DOMAIN Uppers : Uppers[k] = c
  THEN Lowers[CHOOSE k \in DOMAIN Uppers : Uppers[k] = c]
  ELSE c

toLowerCase(s) == [k \in DOMAIN s |-> LowerChar(s[k])]

\* the characters /[^a-z0-9\s-]/ does not match
SlugChar(c) == c \in Range(Lowers) \cup Range(DigitChars) \cup Whitespace \cup {"-"}

RECURSIVE trimStart(_)
trimStart(s) ==
  IF s # <<>> /\ Head(s) \in Whitespace THEN trimStart(Tail(s)) ELSE s

RECURSIVE trimEnd(_)
trimEnd(s) ==
  IF s # <<>> /\ s[Len(s)] \in Whitespace
  THEN trimEnd(SubSeq(s, 1, Len(s) - 1))
  ELSE s

\* String.prototype.trim
trim(s) == trimEnd(trimStart(s))

\* s.replace(/X+/g, "-") for a character class X: every maximal run of X
\* characters becomes one hyphen
RECURSIVE ReplaceRuns(_, _)
ReplaceRuns(s, X) ==
  IF s = <<>> THEN <<>>
  ELSE IF Head(s) \in X
       THEN IF Len(s) > 1 /\ s[2] \in X
            THEN ReplaceRuns(Tail(s), X)
            ELSE <<"-">> \o ReplaceRuns(Tail(s), X)
       ELSE <<Head(s)>> \o ReplaceRuns(Tail(s), X)

\* slugify / slugifyInput
slugify(input) ==
  ReplaceRuns(
    ReplaceRuns(trim(SelectSeq(toLowerCase(input), SlugChar)), Whitespace),
    {"-"})

\* String(n) for a non-negative integer, as a template literal prints it
RECURSIVE Digits(_)
Digits(n) ==
  IF n < 10 THEN <<DigitChars[n + 1]>>
  ELSE Digits(n \div 10) \o <<DigitChars[(n % 10) + 1]>>

\* `${normalized}-${i}`
Suffixed(normalized, i) == normalized \o <<"-">> \o Digits(i)

\* `job-${Date.now()}`
Placeholder(now) == <<"j","o","b","-">> \o Digits(now)

----------------------------------------------------------------------------
(* Bounds of the model *)

\* request slots of the listing routes; each slot serves one request
MaxReqs == 2
\* creates of a sequential run
MaxCreates == 3
\* how many times the millisecond clock advances
MaxTicks == 1
\* the clock value at start (Date.now() is far above any slug counter)
Epoch == 100
\* source URLs a request may carry
MaxUrls == 3

\* auth requests in flight or just answered at one time
MaxAuthReqs == 2
\* salts the password hasher may draw
MaxSalts == 1

\* calls of connectToDatabase in one process
MaxCallers == 4

\* documents in the store GET /jobs reads
MaxDocs == 4

Reqs == 1..MaxReqs
Callers == 1..MaxCallers
AuthReqs == 1..MaxAuthReqs
Salts == 1..MaxSalts
Urls == 1..MaxUrls
\* _id values: one per insert, and one that is never assigned
Ids == 1..(MaxCreates + 1)

----------------------------------------------------------------------------
(* State *)

VARIABLES
  jobs,     \* the Job collection: a set of documents
  nextId,   \* the next _id the store hands out
  clock,    \* Date.now()
  req,      \* the listing requests in flight and their responses
  hist,     \* the completed creates, in completion order (history)
  users,        \* the User collection
  nextUserId,   \* the next _id of the User collection
  setupSecret,  \* env.ADMIN_SETUP_TOKEN, or NoSecret when not configured
  areq,         \* the auth requests in flight and their responses
  gate,         \* requireAdmin's verdict on each listing request
  globalCache,  \* db.ts: { conn, promise }
  promises,     \* the promises mongoose.connect has returned, in call order
  dbCall,       \* the calls of connectToDatabase
  resp          \* the last GET /jobs request and its response

jobVars == <<jobs, nextId, clock, req, hist>>
authVars == <<users, nextUserId, setupSecret, areq>>
dbVars == <<globalCache, promises, dbCall>>
vars == <<jobVars, authVars, gate, dbVars, resp>>

----------------------------------------------------------------------------
(* The Job collection *)

\* the slug index without its unique flag
DuplicateKeyUrlOnly(coll, doc) ==
  \E j \in coll : j.id # doc.id /\ j.url = doc.url

\* jobSchema: the two unique indexes (slug; source.url, always present here)
DuplicateKey(coll, doc) ==
  \E j \in coll : j.id # doc.id /\ (j.slug = doc.slug \/ j.url = doc.url)

\* Job.exists({ slug })
SlugExists(coll, slug) == \E j \in coll : j.slug = slug

\* the titles requests carry: "Job!", "!!!", "job 2", "job <Epoch>", "ab"
Titles ==
  { <<"J","o","b","!">>, <<"!","!","!">>,
    <<"j","o","b"," ","2">>, <<"j","o","b"," ">> \o Digits(Epoch),
    <<"a","b">> }

\* jobInputSchema.safeParse: title is z.string().min(3); the other fields of the
\* bodies modelled here are valid
JobInputValid(body) == Len(body.title) >= 3

CreateBodies == [title : Titles, url : Urls]

\* values of the classification fields
JobType == <<"j","o","b">>
ResultType == <<"r","e","s","u","l","t">>
Kerala == <<"K","e","r","a","l","a">>
Goa == <<"G","o","a">>
BSc == <<"B","S","c">>
MSc == <<"M","S","c">>
Health == <<"H","e","a","l","t","h">>
Rail == <<"R","a","i","l">>

\* the document Job.create builds: parsed.data, slug, isExpired: false
NewJob(id, body, slug, now) ==
  [id |-> id, type |-> JobType, title |-> body.title, slug |-> slug,
   state |-> Kerala, qualification |-> BSc, department |-> Health,
   url |-> body.url, isExpired |-> FALSE, createdAt |-> now]

\* updateSchema is strict: a key it does not list (slug) fails the parse
UpdateKeys == {"title", "url", "isExpired"}
UpdateBodies ==
  { [k \in {"isExpired"} |-> TRUE], [k \in {"url"} |-> 1],
    [k \in {"title"} |-> <<"j","o","b"," ","2">>],
    [k \in {"slug"} |-> <<"j","o","b">>] }

UpdateValid(upd) ==
  /\ DOMAIN upd \subseteq UpdateKeys
  /\ ("title" \in DOMAIN upd => Len(upd.title) >= 3)

\* findByIdAndUpdate's $set of the parsed fields
ApplyUpdate(j, upd) ==
  [f \in DOMAIN j |-> IF f \in DOMAIN upd THEN upd[f] ELSE j[f]]

----------------------------------------------------------------------------
(* Requests and responses *)

IdleReq ==
  [kind |-> "none", pc |-> "idle", title |-> <<>>, url |-> 0,
   normalized |-> <<>>, slug |-> <<>>, i |-> 0, status |-> 0, error |-> "",
   resId |-> 0, taken |-> FALSE, raced |-> FALSE]

SlotFree(r) == req[r].pc = "idle"

\* the response ends the request: its locals are gone
Respond(q, status, error) ==
  [q EXCEPT !.pc = "done", !.status = status, !.error = error,
            !.title = <<>>, !.url = 0, !.i = 0]

\* the loop counter starting at 1 instead of 2
SlugStartFromOne(q, body, now, coll) ==
  LET normalized == slugify(body.title) IN
  IF normalized = <<>>
  THEN [q EXCEPT !.normalized = normalized, !.slug = Placeholder(now),
                 !.taken = SlugExists(coll, Placeholder(now)),
                 !.pc = "insert"]
  ELSE [q EXCEPT !.normalized = normalized, !.slug = normalized, !.i = 1,
                 !.pc = "probe"]

\* ensureUniqueSlug up to its first await: the placeholder return, or the
\* loop's initial state
SlugStart(q, body, now, coll) ==
  LET normalized == slugify(body.title) IN
  IF normalized = <<>>
  THEN [q EXCEPT !.normalized = normalized, !.slug = Placeholder(now),
                 !.taken = SlugExists(coll, Placeholder(now)),
                 !.pc = "insert"]
  ELSE [q EXCEPT !.normalized = normalized, !.slug = normalized, !.i = 2,
                 !.pc = "probe"]

\* POST /jobs up to the first store call
PostJob(r, body) ==
  /\ SlotFree(r)
  /\ LET q == [IdleReq EXCEPT !.kind = "create", !.title = body.title,
                              !.url = body.url] IN
     req' = [req EXCEPT ![r] =
               IF ~JobInputValid(body) THEN Respond(q, 400, "Invalid input")
               ELSE SlugStart(q, body, clock, jobs)]
  /\ UNCHANGED <<jobs, nextId, clock>>

\* one turn of ensureUniqueSlug's while loop
ProbeStep(q, coll) ==
  IF SlugExists(coll, q.slug)
  THEN [q EXCEPT !.slug = Suffixed(q.normalized, q.i), !.i = q.i + 1]
  ELSE [q EXCEPT !.pc = "insert"]

Probe(r) ==
  /\ req[r].pc = "probe"
  /\ req' = [req EXCEPT ![r] = ProbeStep(req[r], jobs)]
  /\ UNCHANGED <<jobs, nextId, clock>>

\* Job.create and the response: 11000 is the store's duplicate-key code
Insert(r) ==
  /\ req[r].pc = "insert"
  /\ LET q == req[r]
         doc == NewJob(nextId, [title |-> q.title, url |-> q.url], q.slug, clock)
         q1 == [q EXCEPT !.raced = SlugExists(jobs, q.slug)]
     IN IF DuplicateKey(jobs, doc)
        THEN /\ req' = [req EXCEPT ![r] =
                  Respond(q1, 409, "Duplicate job (source URL already exists)")]
             /\ UNCHANGED <<jobs, nextId>>
        ELSE /\ jobs' = jobs \cup {doc}
             /\ nextId' = nextId + 1
             /\ req' = [req EXCEPT ![r] =
                  Respond([q1 EXCEPT !.resId = doc.id], 200, "")]
  /\ UNCHANGED clock

\* PUT /jobs/:id
PutJob(r, id, upd) ==
  /\ SlotFree(r)
  /\ LET q == [IdleReq EXCEPT !.kind = "update"] IN
     IF ~UpdateValid(upd)
     THEN /\ req' = [req EXCEPT ![r] = Respond(q, 400, "Invalid input")]
          /\ UNCHANGED jobs
     ELSE IF ~\E j \in jobs : j.id = id
     THEN /\ req' = [req EXCEPT ![r] = Respond(q, 404, "Not found")]
          /\ UNCHANGED jobs
     ELSE LET old == CHOOSE j \in jobs : j.id = id
              new == ApplyUpdate(old, upd)
          IN IF DuplicateKey(jobs, new)
             THEN /\ req' = [req EXCEPT ![r] =
                       Respond(q, 409, "Duplicate job (source URL already exists)")]
                  /\ UNCHANGED jobs
             ELSE /\ jobs' = (jobs \ {old}) \cup {new}
                  /\ req' = [req EXCEPT ![r] = Respond(q, 200, "")]
  /\ UNCHANGED <<nextId, clock>>

\* DELETE /jobs/:id
DeleteJob(r, id) ==
  /\ SlotFree(r)
  /\ LET q == [IdleReq EXCEPT !.kind = "delete"] IN
     IF \E j \in jobs : j.id = id
     THEN /\ jobs' = { j \in jobs : j.id # id }
          /\ req' = [req EXCEPT ![r] = Respond(q, 200, "")]
     ELSE /\ req' = [req EXCEPT ![r] = Respond(q, 404, "Not found")]
          /\ UNCHANGED jobs
  /\ UNCHANGED <<nextId, clock>>

\* the clock moves on
Tick ==
  /\ clock < Epoch + MaxTicks
  /\ clock' = clock + 1
  /\ UNCHANGED <<jobs, nextId, req>>

----------------------------------------------------------------------------
(* Spec: the listing write routes, requests interleaving at every await *)

JobsInit ==
  /\ jobs = {}
  /\ nextId = 1
  /\ clock = Epoch
  /\ req = [r \in Reqs |-> IdleReq]
  /\ hist = <<>>

\* the state the listing specifications leave alone
AuthIdle ==
  /\ users = {}
  /\ nextUserId = 1
  /\ setupSecret = "none"
  /\ areq = <<>>

\* slots are taken in order: which slot serves a request is immaterial
InOrder(r) == \A r2 \in Reqs : r2 < r => req[r2].pc # "idle"

\* the connection the routes above run on: established and cached, so that
\* connectToDatabase returns at its first line
Connected ==
  /\ globalCache = [conn |-> 1, promise |-> 1]
  /\ promises = <<"resolved">>
  /\ dbCall = <<>>
  /\ resp = <<>>

Init == JobsInit /\ AuthIdle /\ gate = <<>> /\ Connected

Next ==
  \/ \E r \in Reqs, body \in CreateBodies :
       InOrder(r) /\ PostJob(r, body) /\ UNCHANGED <<hist, authVars, gate, dbVars, resp>>
  \/ \E r \in Reqs : Probe(r) /\ UNCHANGED <<hist, authVars, gate, dbVars, resp>>
  \/ \E r \in Reqs : Insert(r) /\ UNCHANGED <<hist, authVars, gate, dbVars, resp>>
  \/ \E r \in Reqs, id \in Ids, upd \in UpdateBodies :
       InOrder(r) /\ PutJob(r, id, upd) /\ UNCHANGED <<hist, authVars, gate, dbVars, resp>>
  \/ \E r \in Reqs, id \in Ids :
       InOrder(r) /\ DeleteJob(r, id) /\ UNCHANGED <<hist, authVars, gate, dbVars, resp>>
  \/ Tick /\ UNCHANGED <<hist, authVars, gate, dbVars, resp>>

Spec == Init /\ [][Next]_vars

----------------------------------------------------------------------------
(* SeqSpec: creates only, each arriving after the response to the last *)

\* what a completing create contributes to the history
HistEntry(q, coll, status) ==
  [base |-> q.normalized, slug |-> q.slug, status |-> status,
   urlTaken |-> \E j \in coll : j.url = q.url]

\* the next request arrives after the response to the one before
NextRequest ==
  /\ req[1].pc = "done"
  /\ req' = [req EXCEPT ![1] = IdleReq]
  /\ UNCHANGED <<jobs, nextId, clock>>

SeqNext ==
  \/ \E body \in CreateBodies :
       /\ Len(hist) < MaxCreates
       /\ PostJob(1, body) /\ UNCHANGED <<hist, authVars, gate, dbVars, resp>>
  \/ Probe(1) /\ UNCHANGED <<hist, authVars, gate, dbVars, resp>>
  \/ /\ Insert(1)
     /\ hist' = Append(hist, HistEntry(req[1], jobs, req'[1].status))
     /\ UNCHANGED <<authVars, gate, dbVars, resp>>
  \/ NextRequest /\ UNCHANGED <<hist, authVars, gate, dbVars, resp>>
  \/ Tick /\ UNCHANGED <<hist, authVars, gate, dbVars, resp>>

SeqSpec == Init /\ [][SeqNext]_vars

----------------------------------------------------------------------------
(* The User collection and the auth routes *)

NoSecret == "none"
Secret == "setup-secret"
SetupTokens == {Secret, "wrong-token"}

\* e-mail addresses of the requests: "A@x", "a@x", "b@x"
Emails == { <<"A","@","x">>, <<"a","@","x">>, <<"b","@","x">> }
\* a string z.string().email() rejects
BadEmail == <<"a","x">>
\* display names: "Al" and "Bo " (trimmed on create)
Names == { <<"A","l">>, <<"B","o"," ">> }
\* passwords of 8 and of 10 characters
Pw8 == <<"p","a","s","s","w","o","r","d">>
Pw10 == Pw8 \o <<"1","2">>
Passwords == {Pw8, Pw10}

\* registerSchema
RegisterValid(body) ==
  Len(body.name) >= 2 /\ body.email \in Emails /\ Len(body.password) >= 8
\* loginSchema
LoginValid(body) == body.email \in Emails /\ Len(body.password) >= 1
\* the schema of POST /setup
SetupValid(body) ==
  Len(body.token) >= 1 /\ body.email \in Emails /\ Len(body.password) >= 10

\* hashPassword: salted and one-way; the salt is part of the hash
hashPassword(plain, salt) == [salt |-> salt, of |-> plain]
\* verifyPassword
verifyPassword(plain, hash) == hash.of = plain

\* signAuthToken: the claims, signed
\* the lifetime of a session token: 7 days, in milliseconds
TokenTtl == 7 * 24 * 3600 * 1000
signAuthToken(claims, now) ==
  [kind |-> "jwt", claims |-> claims, sig |-> "valid", exp |-> now + TokenTtl]

NoCookie == [kind |-> "absent"]
ClearedCookie == [kind |-> "cleared"]

\* the email index without its unique flag
UserNoUniqueIndex(coll, doc) == FALSE

\* userSchema: the unique index on email
UserDuplicateKey(coll, doc) == \E u \in coll : u.email = doc.email

\* User.exists({ email }) / User.findOne({ email })
UserExists(coll, email) == \E u \in coll : u.email = email

\* the document User.create builds; the schema lowercases and trims email
NewUser(id, name, email, password, role) ==
  [id |-> id, name |-> name, email |-> trim(toLowerCase(email)),
   password |-> password, role |-> role]

NoDoc == [id |-> 0]

IdleAuth ==
  [kind |-> "none", pc |-> "idle", name |-> <<>>, email |-> <<>>,
   password |-> <<>>, status |-> 0, error |-> "", cookie |-> NoCookie,
   found |-> FALSE, pwOk |-> FALSE, created |-> NoDoc, authorized |-> FALSE,
   raced |-> FALSE, token |-> ""]

AuthSlotFree(r) == areq[r].pc = "idle"

\* the response ends the request; the lowercased e-mail stays for the claims
AuthRespond(q, status, error) ==
  [q EXCEPT !.pc = "done", !.status = status, !.error = error,
            !.name = <<>>, !.password = <<>>, !.token = ""]

\* POST /register up to User.exists
Register(r, body) ==
  /\ AuthSlotFree(r)
  /\ LET q == [IdleAuth EXCEPT !.kind = "register", !.name = body.name,
                  !.email = toLowerCase(body.email), !.password = body.password]
     IN areq' = [areq EXCEPT ![r] =
          IF ~RegisterValid(body)
          THEN AuthRespond([q EXCEPT !.email = <<>>], 400, "Invalid input")
          ELSE IF UserExists(users, toLowerCase(body.email))
          THEN AuthRespond(q, 409, "Email already registered")
          ELSE [q EXCEPT !.pc = "create"]]
  /\ UNCHANGED <<users, nextUserId, setupSecret>>

\* POST /register: hashPassword, User.create and the catch
RegisterCreate(r, salt) ==
  /\ areq[r].kind = "register" /\ areq[r].pc = "create"
  /\ LET q == areq[r]
         doc == NewUser(nextUserId, trim(q.name), q.email,
                        hashPassword(q.password, salt), "user")
     IN IF UserDuplicateKey(users, doc)
        THEN /\ areq' = [areq EXCEPT ![r] =
                  AuthRespond([q EXCEPT !.raced = TRUE], 409,
                              "Email already registered")]
             /\ UNCHANGED <<users, nextUserId>>
        ELSE /\ users' = users \cup {doc}
             /\ nextUserId' = nextUserId + 1
             /\ areq' = [areq EXCEPT ![r] =
                  AuthRespond([q EXCEPT !.created = doc], 201, "")]
  /\ UNCHANGED setupSecret

\* a login that tells an unknown e-mail from a wrong password
LoginOutcomeTelling(q, coll, now) ==
  IF ~UserExists(coll, q.email)
  THEN AuthRespond(q, 404, "User not found")
  ELSE LET user == CHOOSE u \in coll : u.email = q.email IN
       IF ~verifyPassword(q.password, user.password)
       THEN AuthRespond([q EXCEPT !.found = TRUE], 401,
                        "Invalid email or password")
       ELSE AuthRespond(
              [q EXCEPT !.found = TRUE, !.pwOk = TRUE,
                        !.cookie = signAuthToken(
                           [sub |-> user.id, name |-> user.name,
                            email |-> user.email,
                            role |-> IF user.role = "admin" THEN "admin"
                                     ELSE "user"], now)],
              200, "")

\* POST /login: findOne, verifyPassword, signAuthToken, Set-Cookie
LoginOutcome(q, coll, now) ==
  IF ~UserExists(coll, q.email)
  THEN AuthRespond(q, 401, "Invalid email or password")
  ELSE LET user == CHOOSE u \in coll : u.email = q.email IN
       IF ~verifyPassword(q.password, user.password)
       THEN AuthRespond([q EXCEPT !.found = TRUE], 401,
                        "Invalid email or password")
       ELSE AuthRespond(
              [q EXCEPT !.found = TRUE, !.pwOk = TRUE,
                        !.cookie = signAuthToken(
                           [sub |-> user.id, name |-> user.name,
                            email |-> user.email,
                            role |-> IF user.role = "admin" THEN "admin"
                                     ELSE "user"], now)],
              200, "")

Login(r, body) ==
  /\ AuthSlotFree(r)
  /\ LET q == [IdleAuth EXCEPT !.kind = "login",
                  !.email = toLowerCase(body.email), !.password = body.password]
     IN areq' = [areq EXCEPT ![r] =
          IF ~LoginValid(body)
          THEN AuthRespond([q EXCEPT !.email = <<>>], 400, "Invalid input")
          ELSE LoginOutcome(q, users, clock)]
  /\ UNCHANGED <<users, nextUserId, setupSecret>>

\* POST /logout
Logout(r) ==
  /\ AuthSlotFree(r)
  /\ areq' = [areq EXCEPT ![r] =
       AuthRespond([IdleAuth EXCEPT !.kind = "logout", !.cookie = ClearedCookie],
                   200, "")]
  /\ UNCHANGED <<users, nextUserId, setupSecret>>

\* a setup that takes any token once a secret is configured
SetupAnyToken(r, body) ==
  /\ AuthSlotFree(r)
  /\ LET q == [IdleAuth EXCEPT !.kind = "setup",
                  !.email = toLowerCase(body.email), !.password = body.password,
                  !.token = body.token]
     IN areq' = [areq EXCEPT ![r] =
          IF ~SetupValid(body)
          THEN AuthRespond([q EXCEPT !.email = <<>>], 400, "Invalid input")
          ELSE IF setupSecret = NoSecret
          THEN AuthRespond(q, 400, "ADMIN_SETUP_TOKEN is not configured")
          ELSE IF UserExists(users, toLowerCase(body.email))
          THEN AuthRespond([q EXCEPT !.authorized = TRUE], 409,
                           "Email already registered")
          ELSE [q EXCEPT !.authorized = TRUE, !.pc = "create"]]
  /\ UNCHANGED <<users, nextUserId, setupSecret>>

\* POST /setup up to User.exists
Setup(r, body) ==
  /\ AuthSlotFree(r)
  /\ LET q == [IdleAuth EXCEPT !.kind = "setup",
                  !.email = toLowerCase(body.email), !.password = body.password,
                  !.token = body.token]
     IN areq' = [areq EXCEPT ![r] =
          IF ~SetupValid(body)
          THEN AuthRespond([q EXCEPT !.email = <<>>], 400, "Invalid input")
          ELSE IF setupSecret = NoSecret
          THEN AuthRespond(q, 400, "ADMIN_SETUP_TOKEN is not configured")
          ELSE IF body.token # setupSecret
          THEN AuthRespond(q, 401, "Invalid setup token")
          ELSE IF UserExists(users, toLowerCase(body.email))
          THEN AuthRespond([q EXCEPT !.authorized = TRUE], 409,
                           "Email already registered")
          ELSE [q EXCEPT !.authorized = TRUE, !.pc = "create"]]
  /\ UNCHANGED <<users, nextUserId, setupSecret>>

\* what becomes of a request whose handler promise rejects: the route has no
\* try/catch, so the framework either never answers or answers with its own 500
Rejected == {[status |-> 0, pc |-> "dropped"], [status |-> 500, pc |-> "done"]}

\* POST /setup: hashPassword and User.create, outside any try
SetupCreate(r, salt, rejected) ==
  /\ areq[r].kind = "setup" /\ areq[r].pc = "create"
  /\ LET q == areq[r]
         doc == NewUser(nextUserId, <<"A","d","m","i","n">>, q.email,
                        hashPassword(q.password, salt), "admin")
     IN IF UserDuplicateKey(users, doc)
        THEN /\ areq' = [areq EXCEPT ![r] =
                  [AuthRespond([q EXCEPT !.raced = TRUE], rejected.status, "")
                     EXCEPT !.pc = rejected.pc]]
             /\ UNCHANGED <<users, nextUserId>>
        ELSE /\ users' = users \cup {doc}
             /\ nextUserId' = nextUserId + 1
             /\ areq' = [areq EXCEPT ![r] =
                  AuthRespond([q EXCEPT !.created = doc], 200, "")]
  /\ UNCHANGED setupSecret

\* an answered request leaves; its slot serves the next one
AuthDone(r) ==
  /\ areq[r].pc \in {"done", "dropped"}
  /\ areq' = [areq EXCEPT ![r] = IdleAuth]
  /\ UNCHANGED <<users, nextUserId, setupSecret>>

----------------------------------------------------------------------------
(* AuthSpec: the auth routes, requests interleaving at every await *)

AuthInit ==
  /\ users = {}
  /\ nextUserId = 1
  /\ setupSecret \in {NoSecret, Secret}
  /\ areq = [r \in AuthReqs |-> IdleAuth]

RegisterBodies == [name : Names, email : Emails \cup {BadEmail}, password : Passwords]
LoginBodies == [email : Emails, password : Passwords]
SetupBodies == [token : SetupTokens, email : Emails, password : Passwords]

AuthNext ==
  \/ \E r \in AuthReqs, body \in RegisterBodies : Register(r, body) /\ UNCHANGED <<jobVars, gate, dbVars, resp>>
  \/ \E r \in AuthReqs, salt \in Salts : RegisterCreate(r, salt) /\ UNCHANGED <<jobVars, gate, dbVars, resp>>
  \/ \E r \in AuthReqs, body \in LoginBodies : Login(r, body) /\ UNCHANGED <<jobVars, gate, dbVars, resp>>
  \/ \E r \in AuthReqs : Logout(r) /\ UNCHANGED <<jobVars, gate, dbVars, resp>>
  \/ \E r \in AuthReqs, body \in SetupBodies : Setup(r, body) /\ UNCHANGED <<jobVars, gate, dbVars, resp>>
  \/ \E r \in AuthReqs, salt \in Salts, rejected \in Rejected :
       SetupCreate(r, salt, rejected) /\ UNCHANGED <<jobVars, gate, dbVars, resp>>
  \/ \E r \in AuthReqs : AuthDone(r) /\ UNCHANGED <<jobVars, gate, dbVars, resp>>

AuthStart == JobsInit /\ AuthInit /\ gate = <<>> /\ Connected

AuthSpec == AuthStart /\ [][AuthNext]_vars

----------------------------------------------------------------------------
(* requireAdmin in front of the admin routes *)

\* what the session cookie of a request may hold besides a token
NoToken == [kind |-> "absent"]
EmptyToken == [kind |-> "empty"]
Malformed == [kind |-> "malformed"]
NoAuth == [role |-> "none"]

\* session tokens a request may carry: expiring at the first tick or after
\* the last one, signed by the server or tampered with
Tokens ==
  { [kind |-> "jwt",
     claims |-> [sub |-> 1, email |-> <<"a","@","x">>, role |-> role],
     sig |-> sig, exp |-> exp] :
      role \in {"admin", "user"}, sig \in {"valid", "tampered"},
      exp \in {Epoch + 1, Epoch + MaxTicks + 1} }

Credentials == {NoToken, EmptyToken, Malformed} \cup Tokens

\* getTokenFromRequest: the token of the session cookie, if any
getTokenFromRequest(cred) == cred

\* verifyAuthToken returns the claims; it throws on a malformed token, a
\* signature that does not match, or an elapsed expiry
Verifies(token, now) ==
  token \in Tokens /\ token.sig = "valid" /\ now < token.exp

IdleGate ==
  [pc |-> "idle", cred |-> NoToken, at |-> 0, status |-> 0, error |-> "",
   auth |-> NoAuth]

\* a gate that forgets to look at the role
requireAdminAnyRole(cred, now) ==
  LET token == getTokenFromRequest(cred) IN
  IF token \in {NoToken, EmptyToken}
  THEN [IdleGate EXCEPT !.pc = "done", !.status = 401, !.error = "Unauthorized"]
  ELSE IF ~Verifies(token, now)
  THEN [IdleGate EXCEPT !.pc = "done", !.status = 401, !.error = "Unauthorized"]
  ELSE [IdleGate EXCEPT !.pc = "next", !.auth = token.claims]

\* requireAdmin: the response it sends, or next() with req.auth set
requireAdmin(cred, now) ==
  LET token == getTokenFromRequest(cred) IN
  IF token \in {NoToken, EmptyToken}
  THEN [IdleGate EXCEPT !.pc = "done", !.status = 401, !.error = "Unauthorized"]
  ELSE IF ~Verifies(token, now)
  THEN [IdleGate EXCEPT !.pc = "done", !.status = 401, !.error = "Unauthorized"]
  ELSE IF token.claims.role # "admin"
  THEN [IdleGate EXCEPT !.pc = "done", !.status = 403, !.error = "Forbidden"]
  ELSE [IdleGate EXCEPT !.pc = "next", !.auth = token.claims]

\* a request to an admin route reaches the middleware
AdminRequest(r, cred) ==
  /\ gate[r].pc = "idle"
  /\ \A r2 \in Reqs : r2 < r => gate[r2].pc # "idle"
  /\ gate' = [gate EXCEPT ![r] =
       [requireAdmin(cred, clock) EXCEPT !.cred = cred, !.at = clock]]
  /\ UNCHANGED jobVars

\* next() was called for the request
Passed(r) == gate[r].pc = "next"

GateInit ==
  /\ JobsInit
  /\ AuthIdle
  /\ gate = [r \in Reqs |-> IdleGate]
  /\ Connected

GateNext ==
  \/ \E r \in Reqs, cred \in Credentials : AdminRequest(r, cred) /\ UNCHANGED <<authVars, dbVars, resp>>
  \/ \E r \in Reqs, body \in CreateBodies :
       Passed(r) /\ PostJob(r, body) /\ UNCHANGED <<hist, authVars, gate, dbVars, resp>>
  \/ \E r \in Reqs : Probe(r) /\ UNCHANGED <<hist, authVars, gate, dbVars, resp>>
  \/ \E r \in Reqs : Insert(r) /\ UNCHANGED <<hist, authVars, gate, dbVars, resp>>
  \/ \E r \in Reqs, id \in Ids, upd \in UpdateBodies :
       Passed(r) /\ PutJob(r, id, upd) /\ UNCHANGED <<hist, authVars, gate, dbVars, resp>>
  \/ \E r \in Reqs, id \in Ids :
       Passed(r) /\ DeleteJob(r, id) /\ UNCHANGED <<hist, authVars, gate, dbVars, resp>>
  \/ Tick /\ UNCHANGED <<hist, authVars, gate, dbVars, resp>>

GateSpec == GateInit /\ [][GateNext]_vars

----------------------------------------------------------------------------
(* db.ts: the cached connection *)

NoConn == 0
NoPromise == 0

\* connecting on every call that finds no connection yet
NeedsConnectAlways(cache) == TRUE

\* if (!globalCache.promise)
NeedsConnect(cache) == cache.promise = NoPromise

\* connectToDatabase up to its await: the cached connection is returned, or
\* the call waits for the shared promise, created here if there is none.
\* The handle a promise resolves to is named after the connect call behind it.
ConnectCall(c) ==
  /\ dbCall[c].pc = "idle"
  /\ IF globalCache.conn # NoConn
     THEN /\ dbCall' = [dbCall EXCEPT ![c] = [pc |-> "returned", on |-> NoPromise,
                                              got |-> globalCache.conn]]
          /\ UNCHANGED <<globalCache, promises>>
     ELSE IF NeedsConnect(globalCache)
     THEN /\ promises' = Append(promises, "pending")
          /\ globalCache' = [globalCache EXCEPT !.promise = Len(promises) + 1]
          /\ dbCall' = [dbCall EXCEPT ![c] = [pc |-> "awaiting",
                                              on |-> Len(promises) + 1, got |-> NoConn]]
     ELSE /\ dbCall' = [dbCall EXCEPT ![c] = [pc |-> "awaiting",
                                              on |-> globalCache.promise, got |-> NoConn]]
          /\ UNCHANGED <<globalCache, promises>>

\* mongoose.connect settles: the connection is up, or the attempt failed
ConnectSettles(k, outcome) ==
  /\ promises[k] = "pending"
  /\ promises' = [promises EXCEPT ![k] = outcome]
  /\ UNCHANGED <<globalCache, dbCall>>

\* the call resumes after its await: it caches and returns the connection, or
\* the rejection leaves it as an exception
ConnectResume(c) ==
  /\ dbCall[c].pc = "awaiting"
  /\ promises[dbCall[c].on] # "pending"
  /\ IF promises[dbCall[c].on] = "resolved"
     THEN /\ globalCache' = [globalCache EXCEPT !.conn = dbCall[c].on]
          /\ dbCall' = [dbCall EXCEPT ![c] = [pc |-> "returned", on |-> NoPromise,
                                              got |-> dbCall[c].on]]
     ELSE /\ dbCall' = [dbCall EXCEPT ![c] = [pc |-> "threw", on |-> NoPromise,
                                              got |-> NoConn]]
          /\ UNCHANGED globalCache
  /\ UNCHANGED promises

DbInit ==
  /\ globalCache = [conn |-> NoConn, promise |-> NoPromise]
  /\ promises = <<>>
  /\ dbCall = [c \in Callers |-> [pc |-> "idle", on |-> NoPromise, got |-> NoConn]]

DbNext ==
  \/ \E c \in Callers : ConnectCall(c) /\ UNCHANGED <<jobVars, authVars, gate, resp>>
  \/ \E k \in DOMAIN promises, outcome \in {"resolved", "rejected"} :
       ConnectSettles(k, outcome) /\ UNCHANGED <<jobVars, authVars, gate, resp>>
  \/ \E c \in Callers : ConnectResume(c) /\ UNCHANGED <<jobVars, authVars, gate, resp>>

DbStart == JobsInit /\ AuthIdle /\ gate = <<>> /\ DbInit /\ resp = <<>>

DbSpec == DbStart /\ [][DbNext]_vars

----------------------------------------------------------------------------
(* JavaScript numbers and query-string values *)

\* A number is NaN, an infinity, or a finite value kept in halves (h = 2 * value),
\* which holds every value the inputs below produce exactly.
NaN == [k |-> "nan"]
PosInf == [k |-> "inf", neg |-> FALSE]
NegInf == [k |-> "inf", neg |-> TRUE]
Fin(h) == [k |-> "fin", h |-> h]
Whole(n) == Fin(2 * n)

IsDigits(s) == s # <<>> /\ \A k \in DOMAIN s : s[k] \in Range(DigitChars)

DigitValue(c) == (CHOOSE k \in DOMAIN DigitChars : DigitChars[k] = c) - 1

RECURSIVE DigitsValue(_)
DigitsValue(s) ==
  IF s = <<>> THEN 0
  ELSE 10 * DigitsValue(SubSeq(s, 1, Len(s) - 1)) + DigitValue(s[Len(s)])

\* the unsigned part of a numeric string: Infinity, digits, digits.0, digits.5
UnsignedNumber(s) ==
  IF s = <<"I","n","f","i","n","i","t","y">> THEN PosInf
  ELSE IF IsDigits(s) THEN Whole(DigitsValue(s))
  ELSE IF /\ Len(s) >= 3 /\ s[Len(s) - 1] = "."
          /\ IsDigits(SubSeq(s, 1, Len(s) - 2)) /\ s[Len(s)] \in {"0", "5"}
       THEN Fin(2 * DigitsValue(SubSeq(s, 1, Len(s) - 2))
                + (IF s[Len(s)] = "5" THEN 1 ELSE 0))
  ELSE NaN

Negate(n) ==
  IF n.k = "fin" THEN Fin(-n.h)
  ELSE IF n.k = "inf" THEN [n EXCEPT !.neg = ~n.neg]
  ELSE n

\* Number(string)
StringToNumber(str) ==
  LET t == trim(str) IN
  IF t = <<>> THEN Whole(0)
  ELSE IF t[1] = "-" THEN Negate(UnsignedNumber(Tail(t)))
  ELSE IF t[1] = "+" THEN UnsignedNumber(Tail(t))
  ELSE UnsignedNumber(t)

\* a <= b for numbers that are not NaN
NumLe(a, b) ==
  IF a.k = "inf" THEN a.neg \/ (b.k = "inf" /\ ~b.neg)
  ELSE IF b.k = "inf" THEN ~b.neg
  ELSE a.h <= b.h

\* Math.max and Math.min: NaN if either argument is NaN
MathMax(a, b) ==
  IF a.k = "nan" \/ b.k = "nan" THEN NaN ELSE IF NumLe(a, b) THEN b ELSE a
MathMin(a, b) ==
  IF a.k = "nan" \/ b.k = "nan" THEN NaN ELSE IF NumLe(a, b) THEN a ELSE b

\* Number.isFinite
IsFinite(n) == n.k = "fin"

\* req.query.<name>: missing, one string, or a list (a repeated parameter)
Absent == [k |-> "absent"]
Str(s) == [k |-> "str", s |-> s]
List(items) == [k |-> "list", items |-> items]

RECURSIVE Join(_)
Join(items) ==
  IF items = <<>> THEN <<>>
  ELSE IF Len(items) = 1 THEN items[1]
  ELSE items[1] \o <<",">> \o Join(Tail(items))

\* value || fallback: undefined and "" are falsy, a list is not
OrElse(v, fallback) ==
  IF v.k = "absent" \/ (v.k = "str" /\ v.s = <<>>) THEN Str(fallback) ELSE v

\* String(value) of a string or a list
ToStr(v) == IF v.k = "list" THEN Join(v.items) ELSE v.s

\* Number(value) of a string or a list
ToNumber(v) == StringToNumber(ToStr(v))

\* typeof v === "string" ? v.trim() : undefined, then the truthiness test
TrimmedOrNone(v) ==
  IF v.k = "str" /\ trim(v.s) # <<>> THEN [on |-> TRUE, v |-> trim(v.s)]
  ELSE [on |-> FALSE, v |-> <<>>]

----------------------------------------------------------------------------
(* GET /jobs *)

\* escapeRegex: a backslash before every character special to a pattern
RegexSpecial ==
  {".", "*", "+", "?", "^", "$", "{", "}", "(", ")", "|", "[", "]", "\\"}

RECURSIVE escapeRegex(_)
escapeRegex(input) ==
  IF input = <<>> THEN <<>>
  ELSE (IF Head(input) \in RegexSpecial THEN <<"\\", Head(input)>>
        ELSE <<Head(input)>>) \o escapeRegex(Tail(input))

\* the literal an escaped pattern stands for: \c matches c
RECURSIVE PatternLiteral(_)
PatternLiteral(pat) ==
  IF pat = <<>> THEN <<>>
  ELSE IF Head(pat) = "\\" /\ Len(pat) >= 2
       THEN <<pat[2]>> \o PatternLiteral(Tail(Tail(pat)))
       ELSE <<Head(pat)>> \o PatternLiteral(Tail(pat))

Contains(text, lit) ==
  \E k \in 0..(Len(text) - Len(lit)) : SubSeq(text, k + 1, k + Len(lit)) = lit

\* { $regex: safe, $options: "i" } on an escaped pattern
RegexMatch(text, pat) ==
  Contains(toLowerCase(text), toLowerCase(PatternLiteral(pat)))

\* the filter object the handler builds
BuildFilter(params) ==
  LET q == TrimmedOrNone(params.q) IN
  [type |-> ToStr(OrElse(params.type, JobType)),
   onlyLive |-> ~(ToStr(OrElse(params.includeExpired, <<>>)) = <<"1">>),
   state |-> TrimmedOrNone(params.state),
   qualification |-> TrimmedOrNone(params.qualification),
   department |-> TrimmedOrNone(params.department),
   q |-> [on |-> q.on, v |-> escapeRegex(q.v)]]

\* whether a document satisfies the filter
Satisfies(j, f) ==
  /\ j.type = f.type
  /\ f.onlyLive => j.isExpired = FALSE
  /\ f.state.on => j.state = f.state.v
  /\ f.qualification.on => j.qualification = f.qualification.v
  /\ f.department.on => j.department = f.department.v
  /\ f.q.on => \/ RegexMatch(j.title, f.q.v)
               \/ RegexMatch(j.department, f.q.v)
               \/ RegexMatch(j.state, f.q.v)
               \/ RegexMatch(j.qualification, f.q.v)

\* Job.find(filter) / Job.countDocuments(filter)
Find(coll, f) == { j \in coll : Satisfies(j, f) }

\* a limitSafe with the upper clamp at 100
LimitSafeCap100(limit) ==
  MathMin(MathMax(IF IsFinite(limit) THEN limit ELSE Whole(20), Whole(1)), Whole(100))

\* pageSafe and limitSafe
PageSafe(page) == IF IsFinite(page) THEN MathMax(page, Whole(1)) ELSE Whole(1)
LimitSafe(limit) ==
  MathMin(MathMax(IF IsFinite(limit) THEN limit ELSE Whole(20), Whole(1)), Whole(50))

\* (pageSafe - 1) * limitSafe, in quarters
SkipQuarters(pageSafe, limitSafe) == (pageSafe.h - 2) * limitSafe.h

\* Math.max(Math.ceil(total / limitSafe), 1)
TotalPages(total, limitSafe) ==
  LET c == (2 * total + limitSafe.h - 1) \div limitSafe.h IN
  Whole(IF c >= 1 THEN c ELSE 1)

\* the orders sort({ createdAt: -1 }) may give a set of documents: newest
\* first, documents of one instant in any order
NewestFirst(docs) ==
  { ord \in [1..Cardinality(docs) -> docs] :
      /\ \A a, b \in DOMAIN ord : a # b => ord[a] # ord[b]
      /\ \A a, b \in DOMAIN ord : a < b => ord[a].createdAt >= ord[b].createdAt }

\* a limit(m) that forgets the skip
PageNoSkip(ord, n, m) == SubSeq(ord, 1, IF m <= Len(ord) THEN m ELSE Len(ord))

\* skip(n).limit(m) on a sorted result, n and m whole
Page(ord, n, m) ==
  SubSeq(ord, n + 1, IF n + m <= Len(ord) THEN n + m ELSE Len(ord))

\* GET /jobs. A skip or limit that is no whole number is either refused by
\* the store, which rejects the handler's promise (no try/catch), or cut to a
\* whole number, depending on the driver.
GetJobs(params, ord, lenient, rejected) ==
  LET page == ToNumber(OrElse(params.page, <<"1">>))
      limit == ToNumber(OrElse(params.limit, <<"2","0">>))
      pageSafe == PageSafe(page)
      limitSafe == LimitSafe(limit)
      skip4 == SkipQuarters(pageSafe, limitSafe)
      filter == BuildFilter(params)
      found == Find(jobs, filter)
      whole == skip4 % 4 = 0 /\ limitSafe.h % 2 = 0
  IN /\ whole => lenient
     /\ resp' =
          IF ~lenient
          THEN [params |-> params, status |-> rejected.status, items |-> <<>>,
                total |-> 0, page |-> pageSafe, limit |-> limitSafe,
                totalPages |-> Whole(1), skip4 |-> skip4, answered |-> FALSE]
          ELSE [params |-> params, status |-> 200,
                items |-> Page(ord, skip4 \div 4, limitSafe.h \div 2),
                total |-> Cardinality(found), page |-> pageSafe,
                limit |-> limitSafe,
                totalPages |-> TotalPages(Cardinality(found), limitSafe),
                skip4 |-> skip4, answered |-> TRUE]
     /\ UNCHANGED <<jobVars, authVars, gate, dbVars>>

\* documents the store may hold when it is read
SampleDocs ==
  << [type |-> JobType, title |-> <<"N","u","r","s","e">>, state |-> Kerala,
      qualification |-> BSc, department |-> Health, isExpired |-> FALSE, createdAt |-> Epoch],
     [type |-> JobType, title |-> <<"C","l","e","r","k">>, state |-> Kerala,
      qualification |-> BSc, department |-> Rail, isExpired |-> TRUE, createdAt |-> Epoch],
     [type |-> JobType, title |-> <<"C","+","+">>, state |-> Kerala,
      qualification |-> MSc, department |-> Health, isExpired |-> FALSE, createdAt |-> Epoch + 1],
     [type |-> ResultType, title |-> <<"N","u","r","s","e">>, state |-> Kerala,
      qualification |-> BSc, department |-> Health, isExpired |-> FALSE, createdAt |-> Epoch + 1],
     [type |-> JobType, title |-> <<"G","u","a","r","d">>, state |-> Goa,
      qualification |-> BSc, department |-> Rail, isExpired |-> FALSE, createdAt |-> Epoch + 1],
     [type |-> JobType, title |-> <<"C","o","o","k">>, state |-> Kerala,
      qualification |-> BSc, department |-> Health, isExpired |-> FALSE, createdAt |-> Epoch + 2] >>

\* the k-th sample as a stored document: its own _id, slug and source URL
StoredSample(k) ==
  LET d == SampleDocs[k]
      earlier == Cardinality({ k2 \in 1..(k - 1) : SampleDocs[k2].title = d.title })
  IN
  [id |-> k, type |-> d.type, title |-> d.title,
   slug |-> IF earlier = 0 THEN slugify(d.title)
            ELSE Suffixed(slugify(d.title), earlier + 1),
   state |-> d.state,
   qualification |-> d.qualification, department |-> d.department, url |-> k,
   isExpired |-> d.isExpired, createdAt |-> d.createdAt]

Stores ==
  LET n == IF MaxDocs <= Len(SampleDocs) THEN MaxDocs ELSE Len(SampleDocs)
  IN { { StoredSample(k) : k \in ks } : ks \in SUBSET (1..n) }

\* the requests: every filter combination with two pagings, and every
\* paging with two filter combinations
PageValues ==
  {Absent, Str(<<"a","b","c">>), Str(<<"0">>), Str(<<"-","1">>), Str(<<"2">>),
   Str(<<"1",".","5">>), Str(<<"I","n","f","i","n","i","t","y">>)}
LimitValues ==
  {Absent, Str(<<"a","b","c">>), Str(<<"0">>), Str(<<"1","0","0","0">>),
   Str(<<"1">>), Str(<<"2">>), Str(<<"2",".","5">>), Str(<<"-","5">>)}

FilterParams ==
  [type : {Absent, Str(ResultType)},
   q : {Absent, Str(<<"c","+","+">>)},
   state : {Absent, Str(<<" ","K","e","r","a","l","a"," ">>), Str(<<" "," ">>),
            List(<<Goa, Goa>>)},
   qualification : {Absent, Str(BSc)},
   department : {Absent, Str(Health)},
   includeExpired : {Absent, Str(<<"1">>), Str(<<"t","r","u","e">>)},
   page : {Absent, Str(<<"2">>)},
   limit : {Absent, Str(<<"1">>)}]

PagingParams ==
  [type : {Absent}, q : {Absent}, state : {Absent}, qualification : {Absent},
   department : {Absent}, includeExpired : {Absent, Str(<<"1">>)},
   page : PageValues, limit : LimitValues]

QueryParams ==
  { p \in FilterParams : (p.page = Absent) = (p.limit = Absent) } \cup PagingParams

QueryInit ==
  /\ jobs \in Stores
  /\ nextId = MaxDocs + 1
  /\ clock = Epoch + 2
  /\ req = <<>>
  /\ hist = <<>>
  /\ AuthIdle
  /\ gate = <<>>
  /\ globalCache = [conn |-> 1, promise |-> 1]
  /\ promises = <<"resolved">>
  /\ dbCall = <<>>
  /\ resp = <<>>

\* the client takes the response; the next request can be sent
NextQuery ==
  /\ resp # <<>>
  /\ resp' = <<>>
  /\ UNCHANGED <<jobVars, authVars, gate, dbVars>>

QueryNext ==
  \/ /\ resp = <<>>
     /\ \E params \in QueryParams, lenient \in BOOLEAN, rejected \in Rejected :
          \E ord \in NewestFirst(Find(jobs, BuildFilter(params))) :
            GetJobs(params, ord, lenient, rejected)
  \/ NextQuery

QuerySpec == QueryInit /\ [][QueryNext]_vars

----------------------------------------------------------------------------
(* GET /jobs/latest *)

\* Math.min(Math.max(limit, 1), 50): the value handed to limit()
LatestLimit(limit) == MathMin(MathMax(limit, Whole(1)), Whole(50))

\* the number is a whole number
IsWhole(n) == n.k = "fin" /\ n.h % 2 = 0

\* what limit(n) keeps of a sorted result when the store takes n: a whole n
\* keeps the first n, a fraction is cut to a whole number, NaN limits nothing
Limited(ord, n) ==
  IF n.k = "fin" THEN Page(ord, 0, n.h \div 2) ELSE ord

\* GET /jobs/latest. A limit that is no whole number is either refused by
\* the store, which rejects the handler's promise (no try/catch), or taken
\* leniently, depending on the driver.
GetLatest(params, ord, lenient, rejected) ==
  LET limit == ToNumber(OrElse(params.limit, <<"2","0">>))
      passed == LatestLimit(limit)
  IN /\ IsWhole(passed) => lenient
     /\ resp' =
          IF ~lenient
          THEN [route |-> "latest", params |-> params, status |-> rejected.status,
                items |-> <<>>, limit |-> passed, answered |-> FALSE]
          ELSE [route |-> "latest", params |-> params, status |-> 200,
                items |-> Limited(ord, passed), limit |-> passed,
                answered |-> TRUE]
     /\ UNCHANGED <<jobVars, authVars, gate, dbVars>>

\* the filter { type, isExpired: false }
LatestFound(coll, params) ==
  { j \in coll : j.type = ToStr(OrElse(params.type, JobType)) /\ j.isExpired = FALSE }

LatestParams == [type : {Absent, Str(ResultType)}, limit : LimitValues]

LatestInit == QueryInit

LatestNext ==
  \/ /\ resp = <<>>
     /\ \E params \in LatestParams, lenient \in BOOLEAN, rejected \in Rejected :
          \E ord \in NewestFirst(LatestFound(jobs, params)) :
            GetLatest(params, ord, lenient, rejected)
  \/ NextQuery

LatestSpec == LatestInit /\ [][LatestNext]_vars

----------------------------------------------------------------------------
(* Claims about slug assignment *)

Bases == { slugify(t) : t \in { t \in Titles : Len(t) >= 3 } }

\* the slug the j-th create of a base is to get
NthSlug(b, j) == IF j = 1 THEN b ELSE Suffixed(b, j)

\* a decimal numeral of a number >= 2
IsCounter(s) ==
  /\ s # <<>>
  /\ \A k \in DOMAIN s : s[k] \in Range(DigitChars)
  /\ s[1] # "0"
  /\ s # <<"1">>

\* s is b or b-N
IsBaseSlug(b, s) ==
  \/ s = b
  \/ /\ Len(s) > Len(b) + 1
     /\ SubSeq(s, 1, Len(b)) = b
     /\ s[Len(b) + 1] = "-"
     /\ IsCounter(SubSeq(s, Len(b) + 2, Len(s)))

\* no create of another base has put a slug b or b-N into the store
Undisturbed(b) ==
  \A k \in DOMAIN hist :
    hist[k].base # b /\ hist[k].status = 200 => ~IsBaseSlug(b, hist[k].slug)

CreatesOf(b) == SelectSeq(hist, LAMBDA e : e.base = b)
Succeeded(h) == SelectSeq(h, LAMBDA e : e.status = 200)

\* C1 as stated: every one of the sequential creates of a base gets the next
\* slug of base, base-2, base-3, ...
C1_AsStated ==
  \A b \in Bases :
    Undisturbed(b) =>
      \A j \in DOMAIN CreatesOf(b) :
        /\ CreatesOf(b)[j].status = 200
        /\ CreatesOf(b)[j].slug = NthSlug(b, j)

\* C1 amended: for a non-empty base, exactly the sequential creates whose
\* source URL is not stored yet succeed, and the j-th of those gets base for
\* j = 1 and base-j after that: no number skipped, none handed out twice
C1_SequentialSlugs ==
  \A b \in Bases \ {<<>>} :
    Undisturbed(b) =>
      /\ \A j \in DOMAIN CreatesOf(b) :
           CreatesOf(b)[j].status = (IF CreatesOf(b)[j].urlTaken THEN 409 ELSE 200)
      /\ \A j \in DOMAIN Succeeded(CreatesOf(b)) :
           Succeeded(CreatesOf(b))[j].slug = NthSlug(b, j)

\* three creates of base "job" got job, job-2, job-3
C1_Witness ==
  LET b == <<"j","o","b">> IN
  /\ Undisturbed(b)
  /\ Len(Succeeded(CreatesOf(b))) = 3
  /\ Succeeded(CreatesOf(b))[3].slug = Suffixed(b, 3)

\* C2: no two documents of the store share a slug; a create whose slug was
\* taken between its probe and its insert answers 409 and stores nothing
\* (every stored document is the one some 200 response names)
C2_UniqueSlugs ==
  /\ \A j1, j2 \in jobs : j1.slug = j2.slug => j1 = j2
  /\ \A r \in Reqs :
       req[r].kind = "create" /\ req[r].pc = "done" /\ req[r].raced =>
         req[r].status = 409 /\ req[r].resId = 0
  /\ \A j \in jobs :
       \E r \in Reqs : req[r].status = 200 /\ req[r].resId = j.id

\* two creates saw the same slug free; one is stored, the other answered 409
C2_Witness ==
  \E r1, r2 \in Reqs :
    /\ req[r1].kind = "create" /\ req[r1].status = 200
    /\ req[r2].kind = "create" /\ req[r2].status = 409 /\ req[r2].raced
    /\ req[r1].slug = req[r2].slug
    /\ req[r2].normalized # <<>>
    /\ \E j \in jobs : j.slug = req[r1].slug /\ j.id = req[r1].resId

\* C10: the placeholder returned for a title that normalizes to "" is not
\* empty, is no slug of the store, and is no other create's placeholder
C10_PlaceholderUnique ==
  \A r \in Reqs :
    req[r].kind = "create" /\ req[r].pc \in {"insert", "done"}
      /\ req[r].status # 400 /\ req[r].normalized = <<>> =>
        /\ req[r].slug # <<>>
        /\ ~req[r].taken
        /\ \A r2 \in Reqs \ {r} :
             req[r2].kind = "create" /\ req[r2].pc \in {"insert", "done"}
               /\ req[r2].status # 400 /\ req[r2].normalized = <<>> =>
                 req[r2].slug # req[r].slug

----------------------------------------------------------------------------
(* Claims about the auth routes *)

\* a register request with valid input that has been answered
RegisterAnswered(r) ==
  areq[r].kind = "register" /\ areq[r].pc = "done" /\ areq[r].status # 400

\* C3: of the register requests for one e-mail (case ignored) at most one is
\* answered 201 and the others 409; one record with the lowercased e-mail
\* exists afterwards; the record a 201 request created is still stored as
\* created (name, password hash, role user)
C3_RegisterConflict ==
  /\ \A u1, u2 \in users : u1.email = u2.email => u1 = u2
  /\ \A u \in users : u.email = toLowerCase(u.email)
  /\ \A r \in AuthReqs :
       RegisterAnswered(r) =>
         /\ areq[r].status \in {201, 409}
         /\ Cardinality({ u \in users : u.email = areq[r].email }) = 1
         /\ areq[r].status = 409 => areq[r].created = NoDoc
         /\ areq[r].status = 201 =>
              /\ areq[r].created \in users
              /\ areq[r].created.role = "user"
              /\ areq[r].created.email = areq[r].email
  /\ \A r1, r2 \in AuthReqs :
       RegisterAnswered(r1) /\ RegisterAnswered(r2) /\ r1 # r2
         /\ areq[r1].email = areq[r2].email =>
           ~(areq[r1].status = 201 /\ areq[r2].status = 201)

\* two registers of one e-mail passed the existence check; the second
\* create hit the unique index and was answered 409
C3_Witness ==
  \E r1, r2 \in AuthReqs :
    /\ RegisterAnswered(r1) /\ RegisterAnswered(r2)
    /\ areq[r1].email = areq[r2].email
    /\ areq[r1].status = 201 /\ areq[r1].created \in users
    /\ areq[r2].status = 409 /\ areq[r2].raced

\* C4: a setup request with valid input and the matching secret always ends
\* with a response: 200 with its new admin record, or 409
C4_SetupAlwaysAnswers ==
  \A r \in AuthReqs :
    areq[r].kind = "setup" /\ areq[r].authorized
      /\ areq[r].pc \in {"done", "dropped"} =>
        \/ /\ areq[r].pc = "done" /\ areq[r].status = 200
           /\ areq[r].created \in users /\ areq[r].created.role = "admin"
        \/ /\ areq[r].pc = "done" /\ areq[r].status = 409

\* a login with valid input that failed
LoginFailed(q) ==
  q.kind = "login" /\ q.pc = "done" /\ q.status # 400 /\ ~(q.found /\ q.pwOk)

\* the response as the client sees it
Seen(q) == [status |-> q.status, error |-> q.error, cookie |-> q.cookie]

C9_SameResponse ==
  \A r1, r2 \in AuthReqs :
    LoginFailed(areq[r1]) /\ LoginFailed(areq[r2]) =>
      /\ Seen(areq[r1]) = Seen(areq[r2])
      /\ areq[r1].status = 401
      /\ areq[r1].cookie = NoCookie

C9_StoreUntouched ==
  \A r \in AuthReqs :
    areq[r].pc = "idle" /\ areq'[r].kind = "login" => users' = users

\* C9: a login for an unknown e-mail and a login with a wrong password get
\* the same status (401) and body and no cookie, and no login changes the
\* User collection
C9_LoginIndistinguishable == []C9_SameResponse /\ [][C9_StoreUntouched]_vars

\* both kinds of failed login have been answered
C9_Witness ==
  \E r1, r2 \in AuthReqs :
    /\ LoginFailed(areq[r1]) /\ ~areq[r1].found
    /\ LoginFailed(areq[r2]) /\ areq[r2].found /\ ~areq[r2].pwOk
    /\ users # {}

----------------------------------------------------------------------------
(* Claims about requireAdmin *)

\* the request carried a token that verifies at the time the gate ran
GateVerified(g) ==
  IF g.cred.kind = "jwt" THEN g.cred.sig = "valid" /\ g.at < g.cred.exp
  ELSE FALSE

GateAbsent(g) == g.cred.kind \in {"absent", "empty"}

Unauthorized(g) ==
  g.pc = "done" /\ g.status = 401 /\ g.error = "Unauthorized" /\ g.auth = NoAuth

C5_Verdicts ==
  \A r \in Reqs :
    LET g == gate[r] IN
    g.pc # "idle" =>
      /\ GateAbsent(g) => Unauthorized(g)
      /\ ~GateAbsent(g) /\ ~GateVerified(g) => Unauthorized(g)
      /\ GateVerified(g) /\ g.cred.claims.role # "admin" =>
           g.pc = "done" /\ g.status = 403 /\ g.error = "Forbidden"
      /\ GateVerified(g) /\ g.cred.claims.role = "admin" =>
           g.pc = "next" /\ g.status = 0 /\ g.auth = g.cred.claims
      /\ g.status \in {401, 403} => req[r].pc = "idle"
      /\ req[r].pc # "idle" => g.pc = "next" /\ g.auth.role = "admin"

C5_DenialKeepsStore ==
  \A r \in Reqs :
    gate[r].pc = "idle" /\ gate'[r].status \in {401, 403} => jobs' = jobs

\* C5: no token gives 401; a token that does not verify (expired, tampered,
\* malformed) gives the same 401; a verified token of another role gives 403;
\* only a verified admin token lets the handler run, with the claims on the
\* request; a 401 or 403 request never reaches its handler and leaves the Job
\* collection as it is
C5_AdminGate == []C5_Verdicts /\ [][C5_DenialKeepsStore]_vars

\* an elapsed admin token was turned away with 401 while an admin request
\* went through and created a listing
C5_Witness ==
  /\ \E r \in Reqs :
       /\ gate[r].status = 401 /\ gate[r].cred.kind = "jwt"
       /\ gate[r].cred.sig = "valid" /\ gate[r].cred.claims.role = "admin"
  /\ \E r \in Reqs : gate[r].pc = "next" /\ req[r].status = 200 /\ jobs # {}

----------------------------------------------------------------------------
(* Claims about the cached connection *)

\* C6: mongoose.connect is invoked at most once, however the calls of
\* connectToDatabase interleave, and every call that returns hands back the
\* same connection
C6_ConnectOnce ==
  /\ Len(promises) <= 1
  /\ \A c1, c2 \in Callers :
       dbCall[c1].pc = "returned" /\ dbCall[c2].pc = "returned" =>
         dbCall[c1].got = dbCall[c2].got /\ dbCall[c1].got # NoConn

\* two calls waited on the pending connection, a third came after it was
\* cached; all three returned
C6_Witness ==
  \E c1, c2, c3 \in Callers :
    /\ c1 # c2 /\ c2 # c3 /\ c1 # c3
    /\ \A c \in {c1, c2, c3} : dbCall[c].pc = "returned"
    /\ \E c \in Callers : dbCall[c].pc = "idle"
    /\ Len(promises) = 1

----------------------------------------------------------------------------
(* Claims about GET /jobs *)

\* the value is a string holding an unsigned decimal numeral of at least 1
AtLeastOne(v) ==
  /\ v.k = "str"
  /\ LET t == trim(v.s) IN
     /\ t # <<>>
     /\ t[1] \in Range(DigitChars)
     /\ UnsignedNumber(t).k = "fin"
     /\ UnsignedNumber(t).h >= 2

\* C7: whatever page and limit are, the page used and returned is a number
\* of at least 1, and 1 when page is missing, not a number, zero or negative;
\* the limit used and returned is within [1,50], 20 when missing, 50 for 1000
\* and 1 for 0; the skip is computed from these two
C7_PageLimitClamped ==
  resp # <<>> =>
    /\ resp.page.k = "fin" /\ resp.page.h >= 2
    /\ ~AtLeastOne(resp.params.page) => resp.page = Whole(1)
    /\ AtLeastOne(resp.params.page) =>
         resp.page = UnsignedNumber(trim(resp.params.page.s))
    /\ resp.limit.k = "fin" /\ resp.limit.h >= 2 /\ resp.limit.h <= 100
    /\ resp.params.limit = Absent => resp.limit = Whole(20)
    /\ resp.params.limit = Str(<<"1","0","0","0">>) => resp.limit = Whole(50)
    /\ resp.params.limit = Str(<<"0">>) => resp.limit = Whole(1)
    /\ resp.params.limit = Str(<<"-","5">>) => resp.limit = Whole(1)
    /\ resp.params.limit = Str(<<"a","b","c">>) => resp.limit = Whole(20)
    /\ resp.skip4 = (resp.page.h - 2) * resp.limit.h

\* page=-1 and limit=1000 were answered with page 1 and limit 50
C7_Witness ==
  /\ resp # <<>>
  /\ resp.answered
  /\ resp.params.page = Str(<<"-","1">>)
  /\ resp.params.limit = Str(<<"1","0","0","0">>)
  /\ resp.page = Whole(1) /\ resp.limit = Whole(50)
  /\ resp.items # <<>>

\* the value of a filter parameter that is given and not blank
Given(v) == v.k = "str" /\ trim(v.s) # <<>>

\* text holds lit, letter case ignored
Holds(text, lit) ==
  \E k \in 0..(Len(text) - Len(lit)) :
    toLowerCase(SubSeq(text, k + 1, k + Len(lit))) = toLowerCase(lit)

\* the document is what the request asks for, by its exact-match filters
Wanted(j, p) ==
  /\ j.type = (IF p.type = Absent THEN JobType ELSE p.type.s)
  /\ Given(p.state) => j.state = trim(p.state.s)
  /\ Given(p.qualification) => j.qualification = trim(p.qualification.s)
  /\ Given(p.department) => j.department = trim(p.department.s)
  /\ p.includeExpired # Str(<<"1">>) => ~j.isExpired

\* the matches of a request: wanted, and holding the search text if one is given
Matches(p) ==
  { j \in jobs :
      /\ Wanted(j, p)
      /\ Given(p.q) =>
           \E f \in {j.title, j.department, j.state, j.qualification} :
             Holds(f, trim(p.q.s)) }

----------------------------------------------------------------------------
(* Claims about GET /jobs/latest *)

\* C11: whatever the limit parameter is, the limit handed to the store query
\* is a whole number within [1,50], 20 when the parameter is missing, and a
\* response has no more items than that
C11_LatestLimitClamped ==
  resp # <<>> =>
    /\ resp.limit.k = "fin"
    /\ resp.limit.h % 2 = 0
    /\ resp.limit.h >= 2 /\ resp.limit.h <= 100
    /\ resp.params.limit = Absent => resp.limit = Whole(20)
    /\ resp.answered => 2 * Len(resp.items) <= resp.limit.h

----------------------------------------------------------------------------
(* Claims about roles *)

\* the records a step adds to the User collection
Added == users' \ users

\* no admin record without a configured secret; a record a register request
\* created has role user; a session token of a login says admin only if the
\* stored record of its e-mail is an admin
C12_Roles ==
  /\ setupSecret = NoSecret => \A u \in users : u.role # "admin"
  /\ \A u \in users : u.role \in {"user", "admin"}
  /\ \A r \in AuthReqs :
       areq[r].kind = "register" /\ areq[r].created # NoDoc =>
         areq[r].created.role = "user"
  /\ \A r \in AuthReqs :
       areq[r].kind = "login" /\ areq[r].cookie.kind = "jwt" =>
         LET c == areq[r].cookie.claims IN
         /\ c.role \in {"user", "admin"}
         /\ c.email = areq[r].email
         /\ c.role = "admin" =>
              \E u \in users : u.email = c.email /\ u.role = "admin"

\* a step that adds an admin record is the create of a setup request that
\* presented the configured secret; every other step (register, login,
\* logout) adds at most role user records and changes no stored record
C12_AdminOnlyBySetup ==
  /\ users \subseteq users'
  /\ \A u \in Added :
       u.role = "admin" =>
         /\ setupSecret # NoSecret
         /\ \E r \in AuthReqs :
              /\ areq[r].kind = "setup" /\ areq[r].pc = "create"
              /\ areq[r].token = setupSecret
              /\ areq'[r].created = u
  /\ \A r \in AuthReqs :
       areq[r].kind = "register" /\ areq[r].pc = "create" /\ areq'[r].pc = "done" =>
         \A u \in Added : u.role = "user"

\* C12: an admin record exists only through a setup request that presented
\* the configured secret (never when no secret is configured), register
\* creates role user records only, and a login token says admin only if the
\* stored record of that e-mail is an admin
C12_RoleIntegrity == []C12_Roles /\ [][C12_AdminOnlyBySetup]_vars

\* a setup with the secret created an admin; a login for that e-mail got an
\* admin token and a login for a registered user got a user token
C12_Witness ==
  /\ \E u \in users : u.role = "admin"
  /\ \E u \in users : u.role = "user"
  /\ \E r1, r2 \in AuthReqs :
       /\ areq[r1].kind = "login" /\ areq[r1].cookie.kind = "jwt"
       /\ areq[r1].cookie.claims.role = "admin"
       /\ areq[r2].kind = "login" /\ areq[r2].cookie.kind = "jwt"
       /\ areq[r2].cookie.claims.role = "user"
====
